---- MODULE Spec2Model ----
(***************************************************************************)
(* A model of chia/farmer/farmer_api.py: the FarmerAPI message handlers    *)
(* (new_proof_of_space, respond_signatures, new_signage_point,             *)
(* request_signed_values, process_new_proof_of_space_for_pool) acting on   *)
(* the Farmer object's dictionaries.                                       *)
(*                                                                         *)
(* A Python dict is a function whose DOMAIN is the set of keys present.    *)
(* Optional[X] is "None" where X is a string and <<>> / <<x>> otherwise.    *)
(* Every handler is one action, except the pool flow, which is cut at its  *)
(* two awaits on the network (the harvester's signature, the pool's        *)
(* answer).                                                                *)
(***************************************************************************)
EXTENDS Integers, Sequences, FiniteSets, TLC

VARIABLES
    sps,                          \* farmer.sps: sp_hash -> list of NewSignagePoint
    number_of_responses,          \* farmer.number_of_responses: sp_hash -> int
    cache_add_time,               \* farmer.cache_add_time: bytes32 -> time
    proofs_of_space,              \* farmer.proofs_of_space: sp_hash -> list of (plot_identifier, proof)
    quality_str_to_identifiers,   \* farmer.quality_str_to_identifiers: quality -> 4-tuple
    pool_difficulty,              \* farmer.pool_difficulty
    pooling,                      \* what farmer.is_pooling_enabled() answers
    now,                          \* int(time.time())
    last_pool_partial_submit_timestamp,  \* farmer.last_pool_partial_submit_timestamp
    flows,                        \* pool flows suspended at an await
    block_requests,               \* history: RequestSignatures the block path returned, per key
    out,                          \* the messages the last step sent, in order
    last                          \* the message the last step handled

vars == <<sps, number_of_responses, cache_add_time, proofs_of_space,
          quality_str_to_identifiers, pool_difficulty, pooling, now,
          last_pool_partial_submit_timestamp, flows, block_requests, out, last>>

farmerState == <<sps, number_of_responses, cache_add_time, proofs_of_space,
                 quality_str_to_identifiers, pool_difficulty,
                 last_pool_partial_submit_timestamp>>

\* ---------------------------------------------------------------- bounds
MaxTime == 1
MaxFlows == 2
MaxResponses == 2

\* ------------------------------------------------------------ the values
None == "None"

SpHashes == {"k1", "k2"}
Peers == {"h1", "h2"}

Max(a, b) == IF a >= b THEN a ELSE b

Put(d, k, v) == [x \in (DOMAIN d) \cup {k} |-> IF x = k THEN v ELSE d[x]]

EmptyDict == [x \in {} |-> 0]

\* Stamp with the time stamp forgotten.
Stamp_Missing(times, key) == times

\* cache_add_time[key] = uint64(int(time.time()))
Stamp(times, key) == Put(times, key, now)

\* ----------------------------------------------------- new_signage_point
\* The signage points the full node may announce.  Two share the key "k1"
\* and differ in reward_chain_sp, signage_point_index and difficulty.
SpA == [challenge_hash |-> "c1", challenge_chain_sp |-> "k1", reward_chain_sp |-> "r1",
        signage_point_index |-> 3, difficulty |-> 1, sub_slot_iters |-> 1000]
SpB == [challenge_hash |-> "c1", challenge_chain_sp |-> "k1", reward_chain_sp |-> "r2",
        signage_point_index |-> 0, difficulty |-> 10, sub_slot_iters |-> 1000]
SpC == [challenge_hash |-> "c1", challenge_chain_sp |-> "k2", reward_chain_sp |-> "r1",
        signage_point_index |-> 0, difficulty |-> 10, sub_slot_iters |-> 960]

SignagePoints == {SpA, SpB, SpC}

\* Membership that compares the signage points' keys only.
InSeq_ByKey(x, s) == \E i \in 1..Len(s) : s[i].challenge_chain_sp = x.challenge_chain_sp

InSeq(x, s) == \E i \in 1..Len(s) : s[i] = x

pool_sub_slot_iters == 1000

\* The broadcast with the network's difficulty and sub-slot iterations, also
\* when pooling is enabled.
NewSignagePointHarvester_NetworkValues(nsp) ==
    [type |-> "new_signage_point_harvester", to |-> "all_harvesters",
     challenge_hash |-> nsp.challenge_hash,
     difficulty |-> nsp.difficulty,
     sub_slot_iters |-> nsp.sub_slot_iters,
     signage_point_index |-> nsp.signage_point_index,
     sp_hash |-> nsp.challenge_chain_sp]

NewSignagePointHarvester(nsp) ==
    [type |-> "new_signage_point_harvester", to |-> "all_harvesters",
     challenge_hash |-> nsp.challenge_hash,
     difficulty |-> IF pooling THEN pool_difficulty ELSE nsp.difficulty,
     sub_slot_iters |-> IF pooling THEN pool_sub_slot_iters ELSE nsp.sub_slot_iters,
     signage_point_index |-> nsp.signage_point_index,
     sp_hash |-> nsp.challenge_chain_sp]

new_signage_point(nsp) ==
    LET key == nsp.challenge_chain_sp
        bucket == IF key \in DOMAIN sps THEN sps[key] ELSE <<>>
    IN  /\ out' = <<NewSignagePointHarvester(nsp)>>
        /\ last' = [op |-> "new_signage_point", msg |-> nsp, raised |-> FALSE, at |-> "end"]
        /\ IF InSeq(nsp, bucket)
             THEN UNCHANGED <<sps, cache_add_time>>
             ELSE /\ sps' = Put(sps, key, Append(bucket, nsp))
                  /\ cache_add_time' = Stamp(cache_add_time, key)
        /\ UNCHANGED <<number_of_responses, proofs_of_space, quality_str_to_identifiers,
                       pool_difficulty, pooling, now, flows, block_requests,
                       last_pool_partial_submit_timestamp>>

\* ------------------------------------------------------------ the keys
\* blspy: a G1 public key is named after its secret key.
get_g1(sk) == CASE sk = "f1" -> "F1" [] sk = "f2" -> "F2" [] sk = "l1" -> "L1"
                [] sk = "l2" -> "L2" [] sk = "s1" -> "PP1" [] OTHER -> "PP2"

get_private_keys == <<"f1", "f2">>

pool_sks_map == [pk \in {"PP1"} |-> "s1"]

generate_plot_public_key(local_pk, farmer_pk) == <<local_pk, farmer_pk>>

\* --------------------------------------------- the proofs and the evaluator
Qualities == {"qlo", "qhi"}

\* ProofOfSpace.verify_and_get_quality_string: None unless the proof was made
\* for this challenge and signage point and the verifier accepts it.
verify_and_get_quality_string(proof, challenge_hash, sp_hash) ==
    IF proof.challenge = <<challenge_hash, sp_hash>> THEN proof.quality ELSE None

DIFFICULTY_CONSTANT_FACTOR == 8
NUM_SPS_SUB_SLOT == 64
HashRange == 4

\* int.from_bytes(sha256(quality_string + sp_hash)), scaled into 0..HashRange-1
SpQualityInt(quality_string, sp_hash) == IF quality_string = "qlo" THEN 1 ELSE 3

expected_plot_size(k) == (2 * k + 1) * (2 ^ (k - 1))

calculate_iterations_quality(factor, quality_string, size, difficulty, sp_hash) ==
    Max(1, (difficulty * factor * SpQualityInt(quality_string, sp_hash))
              \div (HashRange * expected_plot_size(size)))

calculate_sp_interval_iters(sub_slot_iters) == sub_slot_iters \div NUM_SPS_SUB_SLOT

iters_limit == calculate_sp_interval_iters(pool_sub_slot_iters)

pool_payout_address == "payout"

PoolOpts == {"pk", "ph", "pkx", "both", "neither"}

PlotOf(opt) == CASE opt = "pk" -> "p1" [] opt = "ph" -> "p2" [] opt = "pkx" -> "p3"
                 [] opt = "both" -> "p4" [] OTHER -> "p5"

\* The proof a harvester holding local key l1 for farmer key f1 finds for
\* signage point k: opt says which pool fields the plot carries, q is the
\* quality the verifier computes (None: the verifier rejects the proof).
Proof(k, opt, q) ==
    [challenge |-> <<"c1", k>>, size |-> 1,
     plot_public_key |-> generate_plot_public_key("L1", "F1"),
     pool_public_key |-> CASE opt \in {"pk", "both"} -> "PP1" [] opt = "pkx" -> "PP2"
                           [] OTHER -> None,
     pool_contract_puzzle_hash |-> IF opt \in {"ph", "both"} THEN "ph" ELSE None,
     quality |-> q]

NewProofOfSpace(k, opt, q, idx) ==
    [plot_identifier |-> PlotOf(opt), challenge_hash |-> "c1", sp_hash |-> k,
     proof |-> Proof(k, opt, q), signage_point_index |-> idx]

RequestSignatures(to, plot_identifier, challenge_hash, sp_hash, messages) ==
    [type |-> "request_signatures", to |-> to, plot_identifier |-> plot_identifier,
     challenge_hash |-> challenge_hash, sp_hash |-> sp_hash, messages |-> messages]

PartialPayload(proof, difficulty, sp_hash, is_eos, payout) ==
    [proof_of_space |-> proof, difficulty |-> difficulty, sp_hash |-> sp_hash,
     end_of_sub_slot |-> is_eos, payout_address |-> payout]

get_hash(payload) == <<"hash", payload>>

\* ---------------------------------------------------- new_proof_of_space
max_pos_per_sp == 5

\* The cap test with >= for >.
Capped_AtCap(count) == count >= max_pos_per_sp

\* The cap test of new_proof_of_space.
Capped(count) == count > max_pos_per_sp

\* The end-of-sub-slot flag with the comparison inverted.
IsEos_NonZero(m) == m.signage_point_index # 0

\* is_eos = new_proof_of_space.signage_point_index == 0
IsEos(m) == m.signage_point_index = 0

\* The proof list of the key replaced by a list of the new record alone.
RecordProof_Replace(lists, k, record) == Put(lists, k, <<record>>)

\* proofs_of_space[sp_hash] = [(plot_identifier, proof)] for a key without a
\* list, proofs_of_space[sp_hash].append((plot_identifier, proof)) otherwise.
RecordProof(lists, k, record) ==
    Put(lists, k, Append(IF k \in DOMAIN lists THEN lists[k] ELSE <<>>, record))

\* The counter incremented once for every signage point of the key.
IncrementResponses_PerSignagePoint(count, bucket) == count + Len(bucket)

\* number_of_responses[sp_hash] += 1, in the one iteration of the loop over
\* the key's signage points that is ever executed.
IncrementResponses(count, bucket) == count + 1

\* The quality index keeping the entry a quality string already has.
RecordQuality_KeepFirst(index, quality_string, ids) ==
    IF quality_string \in DOMAIN index THEN index ELSE Put(index, quality_string, ids)

\* farmer.quality_str_to_identifiers[computed_quality_string] = (...)
RecordQuality(index, quality_string, ids) == Put(index, quality_string, ids)

\* The block threshold taken for the iterations of a whole sub-slot.
BlockEligible_SubSlot(required_iters, sp) == required_iters < sp.sub_slot_iters

\* if required_iters < calculate_sp_interval_iters(constants, sp.sub_slot_iters)
BlockEligible(required_iters, sp) ==
    required_iters < calculate_sp_interval_iters(sp.sub_slot_iters)

\* process_new_proof_of_space_for_pool up to its first await: the
\* eligibility test under the pool difficulty, the payload, and the
\* RequestSignatures sent to the harvester that found the proof.
PoolStart(m, peer) ==
    LET required_iters == calculate_iterations_quality(DIFFICULTY_CONSTANT_FACTOR,
                              verify_and_get_quality_string(m.proof, m.challenge_hash, m.sp_hash),
                              m.proof.size, pool_difficulty, m.sp_hash)
        is_eos == IsEos(m)
        payload == PartialPayload(m.proof, pool_difficulty, m.sp_hash, is_eos, pool_payout_address)
        m_to_sign == get_hash(payload)
    IN  IF required_iters >= iters_limit
          THEN /\ out' = <<>>
               /\ UNCHANGED flows
          ELSE /\ Len(flows) < MaxFlows
               /\ out' = <<RequestSignatures(peer, m.plot_identifier, m.challenge_hash,
                                             m.sp_hash, <<m_to_sign>>)>>
               /\ flows' = Append(flows, [pc |-> "await_signatures", msg |-> m, peer |-> peer,
                                          payload |-> payload, m_to_sign |-> m_to_sign])

new_proof_of_space(m, peer) ==
    LET k == m.sp_hash
        fresh == k \notin DOMAIN number_of_responses
        nor1 == IF fresh THEN Put(number_of_responses, k, 0) ELSE number_of_responses
        cat1 == IF fresh THEN Stamp(cache_add_time, k) ELSE cache_add_time
        q == verify_and_get_quality_string(m.proof, m.challenge_hash, m.sp_hash)
        dropped == /\ number_of_responses' = nor1
                   /\ cache_add_time' = cat1
                   /\ out' = <<>>
                   /\ UNCHANGED <<proofs_of_space, quality_str_to_identifiers, flows,
                                  block_requests>>
    IN  /\ last' = [op |-> "new_proof_of_space", msg |-> m, peer |-> peer, raised |-> FALSE,
                    at |-> "end"]
        /\ UNCHANGED <<sps, pool_difficulty, pooling, now, last_pool_partial_submit_timestamp>>
        /\ IF Capped(nor1[k]) THEN dropped
           ELSE IF k \notin DOMAIN sps THEN dropped
           ELSE IF sps[k] = <<>> THEN dropped
           ELSE IF q = None THEN dropped
           ELSE
             LET sp == sps[k][1]
                 required_iters == calculate_iterations_quality(DIFFICULTY_CONSTANT_FACTOR,
                                       q, m.proof.size, sp.difficulty, k)
             IN  /\ number_of_responses' = [nor1 EXCEPT ![k] = IncrementResponses(@, sps[k])]
                 /\ IF BlockEligible(required_iters, sp)
                      THEN /\ proofs_of_space' =
                                RecordProof(proofs_of_space, k,
                                            <<m.plot_identifier, m.proof>>)
                           /\ quality_str_to_identifiers' =
                                RecordQuality(quality_str_to_identifiers, q,
                                    <<m.plot_identifier, m.challenge_hash, m.sp_hash, peer>>)
                           /\ cache_add_time' = Stamp(Stamp(cat1, k), q)
                           /\ out' = <<RequestSignatures(peer, m.plot_identifier,
                                           m.challenge_hash, m.sp_hash,
                                           <<sp.challenge_chain_sp, sp.reward_chain_sp>>)>>
                           /\ block_requests' = [block_requests EXCEPT ![k] = @ + 1]
                           /\ UNCHANGED flows
                      ELSE /\ cache_add_time' = cat1
                           /\ UNCHANGED <<proofs_of_space, quality_str_to_identifiers,
                                          block_requests>>
                           /\ IF m.proof.pool_public_key # None /\ pooling
                                THEN PoolStart(m, peer)
                                ELSE /\ out' = <<>>
                                     /\ UNCHANGED flows

\* ----------------------------------------------------------- signatures
\* A G2 signature is the set of the shares aggregated into it; a share
\* remembers who signed what under which prepended public key.
AugSign(sk, message, prepend_pk) == {[sk |-> sk, m |-> message, pp |-> prepend_pk]}

AugSignOwn(sk, message) == AugSign(sk, message, <<get_g1(sk)>>)

AugAggregate(a, b) == a \cup b

\* The aggregate verifies against a 2-of-2 plot key iff it is made of one
\* share of each half of the key, both over the message and the plot key.
AugVerify(agg_pk, message, sig) ==
    /\ \A sh \in sig : sh.m = message /\ sh.pp = agg_pk
    /\ Cardinality(sig) = 2
    /\ {get_g1(sh.sk) : sh \in sig} = {agg_pk[1], agg_pk[2]}

\* ---------------------------------------------------- respond_signatures
farmer_target == "farmer_ph"
pool_target_puzzle_hash == "pool_ph"

PoolTarget(puzzle_hash, max_height) == <<puzzle_hash, max_height>>

DeclareProofOfSpace(challenge_hash, cc_sp, signage_point_index, rc_sp, pospace, agg_sig_cc_sp, agg_sig_rc_sp, farmer_ph, pool_target, pool_sig) ==
    [type |-> "declare_proof_of_space", to |-> "all_full_nodes",
     challenge_hash |-> challenge_hash, challenge_chain_sp |-> cc_sp,
     signage_point_index |-> signage_point_index, reward_chain_sp |-> rc_sp,
     proof_of_space |-> pospace, challenge_chain_sp_signature |-> agg_sig_cc_sp,
     reward_chain_sp_signature |-> agg_sig_rc_sp, farmer_puzzle_hash |-> farmer_ph,
     pool_target |-> pool_target, pool_signature |-> pool_sig]

SignedValues(quality_string, foliage_agg_sig, foliage_block_agg_sig) ==
    [type |-> "signed_values", to |-> "all_full_nodes", quality_string |-> quality_string,
     foliage_block_data_signature |-> foliage_agg_sig,
     foliage_transaction_block_signature |-> foliage_block_agg_sig]

\* The classification loop of respond_signatures.
FoundSpHash(response) ==
    /\ sps[response.sp_hash] # <<>>
    /\ response.sp_hash = response.message_signatures[1][1]

\* The classification with only the first signage point of the key compared.
IsSpSignatures_FirstOnly(response) ==
    /\ FoundSpHash(response)
    /\ sps[response.sp_hash][1].reward_chain_sp = response.message_signatures[2][1]

IsSpSignatures(response) ==
    /\ FoundSpHash(response)
    /\ \E i \in 1..Len(sps[response.sp_hash]) :
          sps[response.sp_hash][i].reward_chain_sp = response.message_signatures[2][1]

\* The proof recorded for the response's plot: the last match in the list.
MatchingProofs(response) ==
    LET l == proofs_of_space[response.sp_hash]
    IN  {i \in 1..Len(l) : l[i][1] = response.plot_identifier}

RecordedProof(response) ==
    LET l == proofs_of_space[response.sp_hash]
        I == MatchingProofs(response)
    IN  l[CHOOSE i \in I : \A j \in I : j <= i][2]

\* The private keys whose public key is the response's farmer_pk, in order.
MatchingKeys(response) ==
    SelectSeq(get_private_keys, LAMBDA sk : get_g1(sk) = response.farmer_pk)

\* The two asserts on the aggregate signatures, for the farmer key sk.
AggSig(sk, response, i, agg_pk) ==
    AugAggregate(response.message_signatures[i][2],
                 AugSign(sk, response.message_signatures[i][1], agg_pk))

\* The asserts with the second aggregate left unverified.
SignaturesVerify_FirstOnly(sk, response, agg_pk) ==
    AugVerify(agg_pk, response.message_signatures[1][1], AggSig(sk, response, 1, agg_pk))

SignaturesVerify(sk, response, agg_pk) ==
    /\ AugVerify(agg_pk, response.message_signatures[1][1], AggSig(sk, response, 1, agg_pk))
    /\ AugVerify(agg_pk, response.message_signatures[2][1], AggSig(sk, response, 2, agg_pk))

\* assert agg_pk == pospace.plot_public_key
PlotKeyMatches(agg_pk, pospace) == agg_pk = pospace.plot_public_key

\* The handler ends with an exception (a failed assert, a KeyError) or
\* returns; `at` names the place in the handler where it ends.
Raise(op, msg, at) ==
    /\ out' = <<>>
    /\ last' = [op |-> op, msg |-> msg, raised |-> TRUE, at |-> at]

Return(op, msg, at, sent) ==
    /\ out' = sent
    /\ last' = [op |-> op, msg |-> msg, raised |-> FALSE, at |-> at]

\* The pool target attached to every declaration.
DeclaredPoolTarget_Always(pospace) == <<PoolTarget(pool_target_puzzle_hash, 0)>>

\* pool_target: PoolTarget(farmer.pool_target, 0) for a proof with a pool
\* public key, None otherwise.
DeclaredPoolTarget(pospace) ==
    IF pospace.pool_public_key # None
      THEN <<PoolTarget(pool_target_puzzle_hash, 0)>> ELSE <<>>

SpSignatureBranch(response, pospace) ==
    LET keys == MatchingKeys(response)
        sk == keys[1]
        agg_pk == generate_plot_public_key(response.local_pk, get_g1(sk))
        has_pool_pk == pospace.pool_public_key # None
        pool_target == DeclaredPoolTarget(pospace)
        pool_target_signature ==
            IF has_pool_pk
              THEN <<AugSignOwn(pool_sks_map[pospace.pool_public_key],
                                PoolTarget(pool_target_puzzle_hash, 0))>>
              ELSE <<>>
    IN  IF keys = <<>> THEN Return("respond_signatures", response, "sp", <<>>)
        ELSE IF ~PlotKeyMatches(agg_pk, pospace) THEN Raise("respond_signatures", response, "sp")
        ELSE IF ~SignaturesVerify(sk, response, agg_pk)
               THEN Raise("respond_signatures", response, "sp")
        ELSE IF has_pool_pk /\ pospace.pool_contract_puzzle_hash # None
               THEN Raise("respond_signatures", response, "sp")
        ELSE IF has_pool_pk /\ pospace.pool_public_key \notin DOMAIN pool_sks_map
               THEN Return("respond_signatures", response, "sp", <<>>)
        ELSE IF ~has_pool_pk /\ pospace.pool_contract_puzzle_hash = None
               THEN Raise("respond_signatures", response, "sp")
        ELSE Return("respond_signatures", response, "sp",
                 <<DeclareProofOfSpace(response.challenge_hash,
                                       response.message_signatures[1][1],
                                       sps[response.sp_hash][1].signage_point_index,
                                       response.message_signatures[2][1],
                                       pospace,
                                       AggSig(sk, response, 1, agg_pk),
                                       AggSig(sk, response, 2, agg_pk),
                                       farmer_target, pool_target, pool_target_signature)>>)

BlockSignatureBranch(response, pospace, computed_quality_string) ==
    LET keys == MatchingKeys(response)
        Sent(sk) == LET agg_pk == generate_plot_public_key(response.local_pk, get_g1(sk))
                    IN  SignedValues(computed_quality_string,
                                     AggSig(sk, response, 1, agg_pk),
                                     AggSig(sk, response, 2, agg_pk))
        Fails(sk) == LET agg_pk == generate_plot_public_key(response.local_pk, get_g1(sk))
                     IN  ~PlotKeyMatches(agg_pk, pospace) \/ ~SignaturesVerify(sk, response, agg_pk)
    IN  IF keys # <<>> /\ Fails(keys[1])
          THEN Raise("respond_signatures", response, "block")
          ELSE Return("respond_signatures", response, "block",
                      [i \in 1..Len(keys) |-> Sent(keys[i])])

respond_signatures(response) ==
    /\ UNCHANGED <<farmerState, pooling, now, flows, block_requests>>
    /\ IF response.sp_hash \notin DOMAIN sps
         THEN Return("respond_signatures", response, "unknown_sp", <<>>)
       ELSE IF sps[response.sp_hash] = <<>>
         THEN Raise("respond_signatures", response, "classify")
       ELSE IF FoundSpHash(response) /\ ~IsSpSignatures(response)
         THEN Raise("respond_signatures", response, "classify")
       ELSE IF response.sp_hash \notin DOMAIN proofs_of_space
         THEN Raise("respond_signatures", response, "find_proof")
       ELSE IF MatchingProofs(response) = {}
         THEN Raise("respond_signatures", response, "find_proof")
       ELSE
         LET pospace == RecordedProof(response)
             computed_quality_string ==
                 verify_and_get_quality_string(pospace, response.challenge_hash, response.sp_hash)
         IN  IF computed_quality_string = None
               THEN Return("respond_signatures", response, "verify", <<>>)
             ELSE IF IsSpSignatures(response)
               THEN SpSignatureBranch(response, pospace)
               ELSE BlockSignatureBranch(response, pospace, computed_quality_string)

\* ------------------------------------------------- request_signed_values
\* The lookup falling back to some recorded entry when the key is absent.
LookupQuality_AnyEntry(quality_string) ==
    IF quality_string \in DOMAIN quality_str_to_identifiers
      THEN <<quality_str_to_identifiers[quality_string]>>
      ELSE IF quality_str_to_identifiers = EmptyDict THEN <<>>
      ELSE <<quality_str_to_identifiers[CHOOSE q \in DOMAIN quality_str_to_identifiers : TRUE]>>

\* farmer.quality_str_to_identifiers looked up: <<>> when the key is absent.
LookupQuality(quality_string) ==
    IF quality_string \in DOMAIN quality_str_to_identifiers
      THEN <<quality_str_to_identifiers[quality_string]>> ELSE <<>>

request_signed_values(req) ==
    LET found == LookupQuality(req.quality_string)
    IN  /\ UNCHANGED <<farmerState, pooling, now, flows, block_requests>>
        /\ IF found = <<>>
             THEN Return("request_signed_values", req, "not_found", <<>>)
             ELSE LET ids == found[1]
                  IN  Return("request_signed_values", req, "end",
                             <<RequestSignatures(ids[4], ids[1], ids[2], ids[3],
                                  <<req.foliage_block_data_hash,
                                    req.foliage_transaction_block_hash>>)>>)

\* ------------------------------ process_new_proof_of_space_for_pool, resumed
RemoveAt(s, i) == [j \in 1..(Len(s) - 1) |-> IF j < i THEN s[j] ELSE s[j + 1]]

SubmitPartial(payload, agg_sig) ==
    [type |-> "submit_partial", to |-> "pool", payload |-> payload, signature |-> agg_sig]

\* The loop over the farmer's keys: one of its asserts fails.
PoolKeyLoopFails(flow, response) ==
    \E i \in 1..Len(get_private_keys) :
        LET sk == get_private_keys[i]
            agg_pk == generate_plot_public_key(response.local_pk, get_g1(sk))
        IN  /\ get_g1(sk) = response.farmer_pk
            /\ \/ ~PlotKeyMatches(agg_pk, flow.msg.proof)
               \/ ~AugVerify(agg_pk, flow.m_to_sign,
                             AugAggregate(AugSign(sk, flow.m_to_sign, agg_pk),
                                          response.message_signatures[1][2]))

\* plot_signature as the loop leaves it: that of the last matching key.
PlotSignature(flow, response) ==
    LET keys == MatchingKeys(response)
        sk == keys[Len(keys)]
        agg_pk == generate_plot_public_key(response.local_pk, get_g1(sk))
    IN  AugAggregate(AugSign(sk, flow.m_to_sign, agg_pk), response.message_signatures[1][2])

\* The lookup falling back to the farmer's own pool key.
PoolAuthenticationKey_Default(pool_public_key) ==
    IF pool_public_key \in DOMAIN pool_sks_map
      THEN <<pool_sks_map[pool_public_key]>> ELSE <<pool_sks_map["PP1"]>>

\* pool_sk = farmer.pool_sks_map[bytes(pool_public_key)]: <<>> is the KeyError.
PoolAuthenticationKey(pool_public_key) ==
    IF pool_public_key \in DOMAIN pool_sks_map
      THEN <<pool_sks_map[pool_public_key]>> ELSE <<>>

\* The payload with the difficulty read again when the flow resumes.
SubmittedPayload_Reread(flow) == [flow.payload EXCEPT !.difficulty = pool_difficulty]

\* submit_partial = SubmitPartial(payload, agg_sig): the payload is the local
\* variable built before the first await.
SubmittedPayload(flow) == flow.payload

\* The flow resumes with the harvester's answer to its RequestSignatures.
pool_signatures_response(i, response) ==
    LET flow == flows[i]
        pool_public_key == flow.msg.proof.pool_public_key
        ends(raised) == /\ out' = <<>>
                        /\ flows' = RemoveAt(flows, i)
                        /\ last' = [op |-> "pool_signatures_response", msg |-> response,
                                    flow |-> flow, raised |-> raised, at |-> "end"]
                        /\ UNCHANGED last_pool_partial_submit_timestamp
    IN  /\ flow.pc = "await_signatures"
        /\ UNCHANGED <<sps, number_of_responses, cache_add_time, proofs_of_space,
                       quality_str_to_identifiers, pool_difficulty, pooling, now,
                       block_requests>>
        /\ IF response.type # "respond_signatures" THEN ends(FALSE)
           ELSE IF Len(response.message_signatures) # 1 THEN ends(TRUE)
           ELSE IF PoolKeyLoopFails(flow, response) THEN ends(TRUE)
           ELSE IF PoolAuthenticationKey(pool_public_key) = <<>> THEN ends(TRUE)
           ELSE IF MatchingKeys(response) = <<>> THEN ends(TRUE)
           ELSE
             LET authentication_signature ==
                     AugSignOwn(PoolAuthenticationKey(pool_public_key)[1], flow.m_to_sign)
                 agg_sig == AugAggregate(PlotSignature(flow, response), authentication_signature)
             IN  /\ out' = <<SubmitPartial(SubmittedPayload(flow), agg_sig)>>
                 /\ last_pool_partial_submit_timestamp' = now
                 /\ flows' = [flows EXCEPT ![i].pc = "await_pool"]
                 /\ last' = [op |-> "pool_signatures_response", msg |-> response,
                             flow |-> flow, raised |-> FALSE, at |-> "submit"]

\* The adoption from every answer of the pool, whatever its error code.
AdoptedDifficulty_AnyCode(answer, current) ==
    IF answer.failed THEN current ELSE answer.current_difficulty

\* The adoption with every error code, 5 included, keeping the difficulty.
AdoptedDifficulty_ErrorKeeps(answer, current) ==
    IF answer.failed \/ answer.has_error_code THEN current ELSE answer.current_difficulty

\* pool_difficulty after the pool's answer: adopted from the answer when it
\* carries no error code or error code 5, kept otherwise.
AdoptedDifficulty(answer, current) ==
    IF answer.failed THEN current
    ELSE IF answer.has_error_code
           THEN IF answer.error_code = 5 THEN answer.current_difficulty ELSE current
           ELSE answer.current_difficulty

\* The flow resumes with the pool's answer to submit_partial.
pool_submit_response(i, answer) ==
    LET flow == flows[i]
    IN  /\ flow.pc = "await_pool"
        /\ out' = <<>>
        /\ flows' = RemoveAt(flows, i)
        /\ last' = [op |-> "pool_submit_response", msg |-> answer, flow |-> flow,
                    raised |-> FALSE, at |-> "end"]
        /\ pool_difficulty' = AdoptedDifficulty(answer, pool_difficulty)
        /\ UNCHANGED <<sps, number_of_responses, cache_add_time, proofs_of_space,
                       quality_str_to_identifiers, pooling, now, block_requests,
                       last_pool_partial_submit_timestamp>>

\* ------------------------------------------------------------- the clock
Tick ==
    /\ now < MaxTime
    /\ now' = now + 1
    /\ out' = <<>>
    /\ last' = [op |-> "tick"]
    /\ UNCHANGED <<farmerState, pooling, flows, block_requests>>

\* --------------------------------------------------------- specification
Init ==
    /\ sps = EmptyDict
    /\ number_of_responses = EmptyDict
    /\ cache_add_time = EmptyDict
    /\ proofs_of_space = EmptyDict
    /\ quality_str_to_identifiers = EmptyDict
    /\ pool_difficulty = 1
    /\ pooling \in BOOLEAN
    /\ now = 0
    /\ last_pool_partial_submit_timestamp = 0
    /\ flows = <<>>
    /\ block_requests = [k \in SpHashes |-> 0]
    /\ out = <<>>
    /\ last = [op |-> "init"]

\* ------------------------------------------------------ the environment
\* What a harvester holding the local key `signer` signs for the plot key.
HarvesterSig(signer, message) ==
    AugSign(signer, message, generate_plot_public_key("L1", "F1"))

RespondSignatures(k, plot, local_pk, farmer_pk, m1, m2, signer1, signer2) ==
    [type |-> "respond_signatures", plot_identifier |-> plot, challenge_hash |-> "c1",
     sp_hash |-> k, local_pk |-> local_pk, farmer_pk |-> farmer_pk,
     message_signatures |-> << <<m1, HarvesterSig(signer1, m1)>>,
                               <<m2, HarvesterSig(signer2, m2)>> >>]

\* The harvester's answer to the pool flow's RequestSignatures: nothing
\* usable, or a RespondSignatures with one signature over the payload hash.
PoolRespondSignatures(flow, local_pk, farmer_pk, signer) ==
    [type |-> "respond_signatures", plot_identifier |-> flow.msg.plot_identifier,
     challenge_hash |-> flow.msg.challenge_hash, sp_hash |-> flow.msg.sp_hash,
     local_pk |-> local_pk, farmer_pk |-> farmer_pk,
     message_signatures |-> << <<flow.m_to_sign, HarvesterSig(signer, flow.m_to_sign)>> >>]

NoResponse == [type |-> "none"]

PoolAnswer(failed, has_error_code, error_code, current_difficulty) ==
    [failed |-> failed, has_error_code |-> has_error_code, error_code |-> error_code,
     current_difficulty |-> current_difficulty]

SumOfResponses ==
    LET RECURSIVE Sum(_)
        Sum(S) == IF S = {} THEN 0
                  ELSE LET k == CHOOSE x \in S : TRUE
                       IN  number_of_responses[k] + Sum(S \ {k})
    IN  Sum(DOMAIN number_of_responses)

\* Proof intake: signage points and proofs for the key k1, the clock, and
\* the pool flows the proofs start.
IntakeMsgs ==
    {NewProofOfSpace("k1", "pk", q, 3) : q \in Qualities \cup {None}}

NextIntake ==
    \/ \E nsp \in {SpA, SpB} : new_signage_point(nsp)
    \/ \E m \in IntakeMsgs : new_proof_of_space(m, "h1")
    \/ \E i \in 1..Len(flows) :
          \E r \in {NoResponse, PoolRespondSignatures(flows[i], "L1", "F1", "l1")} :
             pool_signatures_response(i, r)
    \/ \E i \in 1..Len(flows) :
          \E a \in {PoolAnswer(TRUE, FALSE, 0, 1), PoolAnswer(FALSE, TRUE, 5, 2)} :
             pool_submit_response(i, a)
    \/ Tick

SpecIntake == Init /\ [][NextIntake]_vars

\* Signing: a few proofs for either key, every shape of RespondSignatures
\* and RequestSignedValues.
SignMsgs ==
    {NewProofOfSpace("k1", "pk", q, 3) : q \in Qualities \cup {None}}
    \cup {NewProofOfSpace("k1", "ph", "qlo", 3), NewProofOfSpace("k2", "pk", "qlo", 0)}

\* The honest answers for the key k1, for every pair of messages, and two
\* for the key k2 ...
HonestResponses ==
    {RespondSignatures("k1", plot, "L1", "F1", mm[1], mm[2], "l1", "l1") :
        plot \in {"p1", "p2"},
        mm \in {<<"k1", "r1">>, <<"k1", "r2">>, <<"k1", "r9">>, <<"fb", "ft">>,
                <<"fb", "r1">>}}
    \cup {RespondSignatures("k2", "p1", "L1", "F1", mm[1], mm[2], "l1", "l1") :
             mm \in {<<"k2", "r1">>, <<"fb", "ft">>}}

\* ... and the faulty ones: a foreign local key, a farmer key this farmer
\* does not hold, the first or the second signature made with another key.
FaultyResponses ==
    {RespondSignatures("k1", "p1", f[1], f[2], mm[1], mm[2], f[3], f[4]) :
        mm \in {<<"k1", "r1">>, <<"fb", "ft">>},
        f \in {<<"L2", "F1", "l1", "l1">>, <<"L1", "F9", "l1", "l1">>,
               <<"L1", "F1", "l2", "l1">>, <<"L1", "F1", "l1", "l2">>}}

SignResponses == HonestResponses \cup FaultyResponses

\* The proofs as they arrive: from the harvester h1, one of them from h2 too.
SignDeliveries ==
    {<<m, "h1">> : m \in SignMsgs} \cup {<<NewProofOfSpace("k1", "pk", "qlo", 3), "h2">>}

RequestSignedValues(quality_string) ==
    [quality_string |-> quality_string, foliage_block_data_hash |-> "fb",
     foliage_transaction_block_hash |-> "ft"]

NextSign ==
    \/ \E nsp \in SignagePoints : new_signage_point(nsp)
    \/ \E d \in SignDeliveries :
          /\ SumOfResponses < MaxResponses
          /\ new_proof_of_space(d[1], d[2])
    \/ \E r \in SignResponses : respond_signatures(r)
    \/ \E q \in Qualities \cup {"qx"} : request_signed_values(RequestSignedValues(q))

SpecSign == Init /\ [][NextSign]_vars

\* Declaring: block-eligible proofs of plots with every combination of the
\* two pool fields, and the harvester's signatures over the signage point.
DeclareMsgs == {NewProofOfSpace("k1", opt, "qlo", 3) : opt \in PoolOpts}

DeclareResponses ==
    {RespondSignatures("k1", PlotOf(opt), "L1", "F1", "k1", rc, "l1", "l1") :
        opt \in PoolOpts, rc \in {"r1", "r2"}}

NextDeclare ==
    \/ \E nsp \in {SpA, SpB} : new_signage_point(nsp)
    \/ \E m \in DeclareMsgs :
          /\ SumOfResponses < MaxResponses
          /\ new_proof_of_space(m, "h1")
    \/ \E r \in DeclareResponses : respond_signatures(r)

SpecDeclare == Init /\ [][NextDeclare]_vars

\* Pooling: proofs that miss the block threshold, the harvester's and the
\* pool's answers, several flows in flight.
PoolMsgs ==
    {NewProofOfSpace("k1", "pk", "qhi", idx) : idx \in {0, 3}}
    \cup {NewProofOfSpace("k1", "pkx", "qhi", 3), NewProofOfSpace("k1", "ph", "qhi", 3),
          NewProofOfSpace("k2", "pk", "qhi", 0), NewProofOfSpace("k1", "pk", None, 3)}

\* The harvester's answers: none, the honest one, and one with a foreign
\* local key, with a farmer key this farmer does not hold, with a signature
\* made with another key.
PoolResponses(flow) ==
    {NoResponse} \cup
    {PoolRespondSignatures(flow, f[1], f[2], f[3]) :
        f \in {<<"L1", "F1", "l1">>, <<"L2", "F1", "l1">>, <<"L1", "F9", "l1">>,
               <<"L1", "F1", "l2">>}}

\* The proofs as they arrive: from the harvester h1, one of them from h2 too.
PoolDeliveries ==
    {<<m, "h1">> : m \in PoolMsgs} \cup {<<NewProofOfSpace("k1", "pk", "qhi", 3), "h2">>}

PoolAnswers ==
    {PoolAnswer(TRUE, FALSE, 0, 1)} \cup
    {PoolAnswer(FALSE, e[1], e[2], d) : e \in {<<FALSE, 0>>, <<TRUE, 5>>, <<TRUE, 1>>},
                                        d \in {2, 400}}

NextPool ==
    \/ \E nsp \in SignagePoints : new_signage_point(nsp)
    \/ \E d \in PoolDeliveries :
          /\ SumOfResponses < MaxResponses
          /\ new_proof_of_space(d[1], d[2])
    \/ \E i \in 1..Len(flows) : \E r \in PoolResponses(flows[i]) :
          pool_signatures_response(i, r)
    \/ \E i \in 1..Len(flows) : \E a \in PoolAnswers : pool_submit_response(i, a)

SpecPool == Init /\ [][NextPool]_vars

\* ------------------------------------------------------------ the claims

\* C1: for every signage-point key, new_proof_of_space returns at most
\* max_pos_per_sp = 5 RequestSignatures for valid, block-eligible proofs: the
\* sixth and the seventh such proof of a key get none.
C1_AtMostFiveRequests ==
    \A k \in SpHashes : block_requests[k] <= max_pos_per_sp

\* The proof verifies and is block-eligible under the signage point S.
EligibleUnder(m, S) ==
    LET q == verify_and_get_quality_string(m.proof, m.challenge_hash, m.sp_hash)
    IN  /\ q # None
        /\ calculate_iterations_quality(DIFFICULTY_CONSTANT_FACTOR, q, m.proof.size,
                                        S.difficulty, m.sp_hash)
             < calculate_sp_interval_iters(S.sub_slot_iters)

\* A proof is recorded for the response's signage point and plot.
ProofRecorded(r) ==
    /\ r.sp_hash \in DOMAIN proofs_of_space
    /\ \E i \in 1..Len(proofs_of_space[r.sp_hash]) :
          proofs_of_space[r.sp_hash][i][1] = r.plot_identifier

\* The i-th harvester signature of the response is the share of the plot's
\* local key over the i-th message and the plot key.
GenuineShare(r, i, plot_public_key) ==
    /\ r.message_signatures[i][2] # {}
    /\ \A sh \in r.message_signatures[i][2] :
          /\ sh.m = r.message_signatures[i][1]
          /\ sh.pp = plot_public_key
          /\ get_g1(sh.sk) = plot_public_key[1]

\* The response names the two halves of the recorded proof's plot key, the
\* farmer holds the farmer half, and both harvester signatures are genuine.
KeysAndSignaturesGood(r) ==
    LET plot_public_key == RecordedProof(r).plot_public_key
    IN  /\ <<r.local_pk, r.farmer_pk>> = plot_public_key
        /\ \E i \in 1..Len(get_private_keys) : get_g1(get_private_keys[i]) = r.farmer_pk
        /\ GenuineShare(r, 1, plot_public_key)
        /\ GenuineShare(r, 2, plot_public_key)

\* C2: for a registered signage point S and a proof that verifies and is
\* block-eligible under S, new_proof_of_space returns exactly one
\* RequestSignatures, for the messages [S.challenge_chain_sp, S.reward_chain_sp];
\* and a RespondSignatures for a recorded proof whose two messages are those
\* of a registered S, with the farmer's key and genuine signatures, makes
\* respond_signatures broadcast exactly one DeclareProofOfSpace.
C2_Step ==
    /\ (last'.op = "new_proof_of_space" /\ last'.msg.sp_hash \in DOMAIN sps) =>
          LET m == last'.msg
          IN  \A i \in 1..Len(sps[m.sp_hash]) :
                 LET S == sps[m.sp_hash][i]
                 IN  EligibleUnder(m, S) =>
                        out' = <<RequestSignatures(last'.peer, m.plot_identifier,
                                     m.challenge_hash, m.sp_hash,
                                     <<S.challenge_chain_sp, S.reward_chain_sp>>)>>
    /\ (last'.op = "respond_signatures" /\ last'.msg.sp_hash \in DOMAIN sps) =>
          LET r == last'.msg
          IN  (/\ ProofRecorded(r)
               /\ \E i \in 1..Len(sps[r.sp_hash]) :
                     /\ r.message_signatures[1][1] = sps[r.sp_hash][i].challenge_chain_sp
                     /\ r.message_signatures[2][1] = sps[r.sp_hash][i].reward_chain_sp
               /\ KeysAndSignaturesGood(r))
              => /\ Len(out') = 1
                 /\ out'[1].type = "declare_proof_of_space"

C2_RequestThenDeclare == [][C2_Step]_vars

\* C3: whenever respond_signatures broadcasts a DeclareProofOfSpace or a
\* SignedValues, the plot key rebuilt from the response equals the recorded
\* proof's plot key, both harvester signatures are genuine and both
\* broadcast aggregates verify against that key; so a corrupted signature or
\* a disagreeing key means nothing is broadcast.
C3_NoUnverifiedBroadcast ==
    (last.op = "respond_signatures" /\ out # <<>>) =>
        LET r == last.msg
        IN  /\ ProofRecorded(r)
            /\ generate_plot_public_key(r.local_pk, r.farmer_pk)
                 = RecordedProof(r).plot_public_key
            /\ GenuineShare(r, 1, RecordedProof(r).plot_public_key)
            /\ GenuineShare(r, 2, RecordedProof(r).plot_public_key)
            /\ \A i \in 1..Len(out) :
                  LET sigs == IF out[i].type = "declare_proof_of_space"
                                THEN <<out[i].challenge_chain_sp_signature,
                                       out[i].reward_chain_sp_signature>>
                                ELSE <<out[i].foliage_block_data_signature,
                                       out[i].foliage_transaction_block_signature>>
                  IN  /\ out[i].type \in {"declare_proof_of_space", "signed_values"}
                      /\ \A j \in 1..2 :
                            AugVerify(RecordedProof(r).plot_public_key,
                                      r.message_signatures[j][1], sigs[j])

\* A DeclareProofOfSpace has just been broadcast.
C3_Witness ==
    /\ last.op = "respond_signatures"
    /\ Len(out) = 1
    /\ out[1].type = "declare_proof_of_space"

\* C4: handling a NewSignagePoint that is already in the bucket of its key
\* leaves the registry unchanged; one that is not is appended, also when the
\* bucket holds signage points with the same key that differ in another
\* field; so no bucket ever holds two equal signage points.
NoDuplicates(registry) ==
    \A k \in DOMAIN registry :
       \A i, j \in 1..Len(registry[k]) : registry[k][i] = registry[k][j] => i = j

C4_Step ==
    /\ NoDuplicates(sps')
    /\ last'.op = "new_signage_point" =>
          LET nsp == last'.msg
              k == nsp.challenge_chain_sp
              before == IF k \in DOMAIN sps THEN sps[k] ELSE <<>>
          IN  IF \E i \in 1..Len(before) : before[i] = nsp
                THEN sps' = sps
                ELSE /\ sps'[k] = before \o <<nsp>>
                     /\ \A x \in DOMAIN sps : x # k => sps'[x] = sps[x]

C4_Idempotent == [][C4_Step]_vars

\* A signage point was announced again while its bucket holds two signage
\* points that share the key.
C4_Witness ==
    /\ last.op = "new_signage_point"
    /\ "k1" \in DOMAIN sps
    /\ Len(sps["k1"]) = 2
    /\ last.msg = sps["k1"][1]

\* The key's response counter is over the cap.
CappedKey(k) == k \in DOMAIN number_of_responses /\ number_of_responses[k] > max_pos_per_sp

\* The proof is dropped at intake: capped or unregistered key, or the proof
\* does not verify.
DroppedAtIntake(m) ==
    \/ CappedKey(m.sp_hash)
    \/ m.sp_hash \notin DOMAIN sps
    \/ verify_and_get_quality_string(m.proof, m.challenge_hash, m.sp_hash) = None

\* The proof passes intake, misses the block threshold and carries a pool
\* public key while pooling is enabled: its pool eligibility is evaluated.
PoolChecked(m) ==
    /\ ~DroppedAtIntake(m)
    /\ ~EligibleUnder(m, sps[m.sp_hash][1])
    /\ m.proof.pool_public_key # None
    /\ pooling

PoolItersUnder(m, difficulty) ==
    calculate_iterations_quality(DIFFICULTY_CONSTANT_FACTOR,
        verify_and_get_quality_string(m.proof, m.challenge_hash, m.sp_hash),
        m.proof.size, difficulty, m.sp_hash)

\* C5: after a pool answer without error code, or with error code 5, is
\* handled, pool_difficulty equals the answer's current_difficulty; nothing
\* else changes pool_difficulty; and every pool-eligibility check uses the
\* pool_difficulty of the moment, in its test and in the payload it builds.
C5_Step ==
    /\ (/\ last'.op = "pool_submit_response"
        /\ ~last'.msg.failed
        /\ (~last'.msg.has_error_code \/ last'.msg.error_code = 5))
          => pool_difficulty' = last'.msg.current_difficulty
    /\ pool_difficulty' # pool_difficulty => last'.op = "pool_submit_response"
    /\ (last'.op = "new_proof_of_space" /\ PoolChecked(last'.msg)) =>
          IF PoolItersUnder(last'.msg, pool_difficulty) < iters_limit
            THEN /\ Len(flows') = Len(flows) + 1
                 /\ flows'[Len(flows')].payload.difficulty = pool_difficulty
            ELSE flows' = flows /\ out' = <<>>

C5_DifficultyAdopted == [][C5_Step]_vars

\* The pool answered "difficulty too low" with 400 and 400 was adopted.
C5_Witness ==
    /\ last.op = "pool_submit_response"
    /\ last.msg.has_error_code
    /\ last.msg.error_code = 5
    /\ last.msg.current_difficulty = 400
    /\ pool_difficulty = 400

\* C6: a verified proof with a pool public key, pooling enabled, that misses
\* the block threshold and needs fewer than iters_limit iterations under the
\* pool difficulty gets exactly one RequestSignatures, sent to its harvester,
\* for the single message hash(payload); if one of the three preconditions
\* fails the pool path sends nothing.  A valid answer of the harvester, with
\* the pool's authentication key known, gives exactly one SubmitPartial,
\* whose payload has is_eos true iff the proof's signage_point_index is 0.
C6_Step ==
    /\ (/\ last'.op = "new_proof_of_space"
        /\ ~DroppedAtIntake(last'.msg)
        /\ ~EligibleUnder(last'.msg, sps[last'.msg.sp_hash][1])) =>
          LET m == last'.msg
              payload == [proof_of_space |-> m.proof, difficulty |-> pool_difficulty,
                          sp_hash |-> m.sp_hash,
                          end_of_sub_slot |-> (m.signage_point_index = 0),
                          payout_address |-> pool_payout_address]
          IN  IF /\ m.proof.pool_public_key # None
                 /\ pooling
                 /\ PoolItersUnder(m, pool_difficulty) < iters_limit
                THEN /\ Len(out') = 1
                     /\ out'[1].type = "request_signatures"
                     /\ out'[1].to = last'.peer
                     /\ out'[1].messages = <<get_hash(payload)>>
                     /\ Len(flows') = Len(flows) + 1
                ELSE out' = <<>> /\ flows' = flows
    /\ last'.op = "pool_signatures_response" =>
          LET r == last'.msg
              f == last'.flow
              plot_public_key == f.msg.proof.plot_public_key
          IN  (/\ r.type = "respond_signatures"
               /\ <<r.local_pk, r.farmer_pk>> = plot_public_key
               /\ \E i \in 1..Len(get_private_keys) : get_g1(get_private_keys[i]) = r.farmer_pk
               /\ GenuineShare(r, 1, plot_public_key)
               /\ f.msg.proof.pool_public_key \in DOMAIN pool_sks_map)
              => /\ Len(out') = 1
                 /\ out'[1].type = "submit_partial"
                 /\ out'[1].payload.proof_of_space = f.msg.proof
                 /\ out'[1].payload.end_of_sub_slot = (f.msg.signage_point_index = 0)
    /\ \A i \in 1..Len(out') :
          out'[i].type = "submit_partial" =>
             /\ last'.op = "pool_signatures_response"
             /\ last'.flow.pc = "await_signatures"
             /\ Len(out') = 1

C6_PoolFlow == [][C6_Step]_vars

\* A partial for an end-of-sub-slot proof has just been submitted.
C6_Witness ==
    /\ last.op = "pool_signatures_response"
    /\ Len(out) = 1
    /\ out[1].type = "submit_partial"
    /\ out[1].payload.end_of_sub_slot

\* C7: request_signed_values for a quality string that is not in the
\* quality index sends nothing, raises nothing and changes no state.
C7_Step ==
    (/\ last'.op = "request_signed_values"
     /\ last'.msg.quality_string \notin DOMAIN quality_str_to_identifiers)
       => /\ out' = <<>>
          /\ ~last'.raised
          /\ farmerState' = farmerState
          /\ flows' = flows

C7_UnknownQuality == [][C7_Step]_vars

\* An unknown quality string was asked for while another one is recorded.
C7_Witness ==
    /\ last.op = "request_signed_values"
    /\ last.msg.quality_string \notin DOMAIN quality_str_to_identifiers
    /\ quality_str_to_identifiers # EmptyDict
    /\ out = <<>>

\* The whole intake transition for a proof that is not dropped.
WholeIntakeApplied(m) ==
    LET k == m.sp_hash
        q == verify_and_get_quality_string(m.proof, m.challenge_hash, m.sp_hash)
        count == IF k \in DOMAIN number_of_responses THEN number_of_responses[k] ELSE 0
        recorded == IF k \in DOMAIN proofs_of_space THEN proofs_of_space[k] ELSE <<>>
    IN  /\ number_of_responses' = Put(number_of_responses, k, count + 1)
        /\ IF EligibleUnder(m, sps[k][1])
             THEN /\ proofs_of_space' =
                        Put(proofs_of_space, k, recorded \o << <<m.plot_identifier, m.proof>> >>)
                  /\ q \in DOMAIN quality_str_to_identifiers'
                  /\ quality_str_to_identifiers'[q][1] = m.plot_identifier
                  /\ cache_add_time'[k] = now
                  /\ cache_add_time'[q] = now
             ELSE /\ proofs_of_space' = proofs_of_space
                  /\ quality_str_to_identifiers' = quality_str_to_identifiers

\* C8 as stated: a dropped proof leaves the response counters, the
\* timestamps, the proof lists and the quality index exactly as they were; a
\* proof that is not dropped gets the whole intake transition.
C8_OriginalStep ==
    last'.op = "new_proof_of_space" =>
        IF DroppedAtIntake(last'.msg)
          THEN /\ number_of_responses' = number_of_responses
               /\ cache_add_time' = cache_add_time
               /\ proofs_of_space' = proofs_of_space
               /\ quality_str_to_identifiers' = quality_str_to_identifiers
          ELSE WholeIntakeApplied(last'.msg)

C8_Original == [][C8_OriginalStep]_vars

\* C8 as amended: a dropped proof leaves the proof lists, the quality index
\* and every existing response counter and timestamp as they were; its only
\* effect, when its key had no response counter yet, is that counter created
\* at 0 and the key's timestamp set to the current time.  A proof that is not
\* dropped gets the whole intake transition.
C8_AmendedStep ==
    last'.op = "new_proof_of_space" =>
        LET k == last'.msg.sp_hash
            fresh == k \notin DOMAIN number_of_responses
        IN  IF DroppedAtIntake(last'.msg)
              THEN /\ proofs_of_space' = proofs_of_space
                   /\ quality_str_to_identifiers' = quality_str_to_identifiers
                   /\ number_of_responses' =
                        IF fresh THEN Put(number_of_responses, k, 0) ELSE number_of_responses
                   /\ cache_add_time' =
                        IF fresh THEN Put(cache_add_time, k, now) ELSE cache_add_time
              ELSE WholeIntakeApplied(last'.msg)

C8_IntakeAllOrNothing == [][C8_AmendedStep]_vars

\* A proof for an unregistered key was dropped and left a counter at 0.
C8_Witness ==
    /\ last.op = "new_proof_of_space"
    /\ last.msg.sp_hash \notin DOMAIN sps
    /\ last.msg.sp_hash \in DOMAIN number_of_responses
    /\ number_of_responses[last.msg.sp_hash] = 0
    /\ last.msg.sp_hash \in DOMAIN cache_add_time

\* C9: every key of the registry, the response counters, the proof lists and
\* the quality index has a timestamp, and no step takes a timestamp away or
\* sets it to an older value.
C9_Domain ==
    ((DOMAIN sps) \cup (DOMAIN number_of_responses) \cup (DOMAIN proofs_of_space)
        \cup (DOMAIN quality_str_to_identifiers)) \subseteq DOMAIN cache_add_time

C9_Step ==
    \A k \in DOMAIN cache_add_time :
       k \in DOMAIN cache_add_time' /\ cache_add_time'[k] >= cache_add_time[k]

C9_Timestamps == []C9_Domain /\ [][C9_Step]_vars

\* The key k1 was stamped again after the quality string qlo was recorded.
C9_Witness ==
    /\ "qlo" \in DOMAIN quality_str_to_identifiers
    /\ "k1" \in DOMAIN proofs_of_space
    /\ cache_add_time["qlo"] < cache_add_time["k1"]

\* The response is for a registered key and a recorded proof that verifies.
ReachesBranch(r) ==
    /\ r.sp_hash \in DOMAIN sps
    /\ ProofRecorded(r)
    /\ verify_and_get_quality_string(RecordedProof(r), r.challenge_hash, r.sp_hash) # None

FirstIsSpHash(r) == r.message_signatures[1][1] = r.sp_hash

SecondIsRewardChainSp(r) ==
    \E i \in 1..Len(sps[r.sp_hash]) :
       sps[r.sp_hash][i].reward_chain_sp = r.message_signatures[2][1]

\* C10 as stated: a response for a registered key is handled by the
\* signage-point branch iff its first message is the signage-point hash and
\* its second the reward_chain_sp of a signage point of the key, and by the
\* block-signing branch in every other case.
C10_Original ==
    (last.op = "respond_signatures" /\ ReachesBranch(last.msg)) =>
        IF FirstIsSpHash(last.msg) /\ SecondIsRewardChainSp(last.msg)
          THEN last.at = "sp"
          ELSE /\ last.at = "block"
               /\ \A i \in 1..Len(out) : out[i].type = "signed_values"

\* C10 as amended: the signage-point branch is taken iff both messages
\* match; when the first message is the signage-point hash and the second
\* matches no registered reward_chain_sp, the handler's assertion fails and
\* neither branch is taken and nothing is broadcast; when the first message
\* is not the signage-point hash the block-signing branch is taken, which
\* broadcasts SignedValues only.
C10_Classification ==
    (last.op = "respond_signatures" /\ last.msg.sp_hash \in DOMAIN sps) =>
        /\ (FirstIsSpHash(last.msg) /\ ~SecondIsRewardChainSp(last.msg)) =>
              /\ last.raised
              /\ last.at = "classify"
              /\ out = <<>>
        /\ ReachesBranch(last.msg) =>
              /\ last.at = "sp" <=> (FirstIsSpHash(last.msg) /\ SecondIsRewardChainSp(last.msg))
              /\ ~FirstIsSpHash(last.msg) =>
                    /\ last.at = "block"
                    /\ \A i \in 1..Len(out) : out[i].type = "signed_values"
              /\ last.at = "sp" =>
                    \A i \in 1..Len(out) : out[i].type = "declare_proof_of_space"

\* A response whose first message is the signage-point hash and whose second
\* matches no signage point arrived for a recorded proof, and was rejected.
C10_Witness ==
    /\ last.op = "respond_signatures"
    /\ ReachesBranch(last.msg)
    /\ FirstIsSpHash(last.msg)
    /\ ~SecondIsRewardChainSp(last.msg)
    /\ last.raised

\* The response passes the classification of respond_signatures: it is not
\* one whose first message is the signage-point hash while its second matches
\* no signage point of the key.
PassesClassification(r) ==
    /\ r.sp_hash \in DOMAIN sps
    /\ ~(FirstIsSpHash(r) /\ ~SecondIsRewardChainSp(r))

\* C11: a RespondSignatures for an unregistered key, or for a registered key
\* whose proof list is absent or holds no record for the response's plot, is
\* dropped: nothing is broadcast and the handler does not raise.
C11_AbsentTolerated ==
    (/\ last.op = "respond_signatures"
     /\ \/ last.msg.sp_hash \notin DOMAIN sps
        \/ PassesClassification(last.msg) /\ ~ProofRecorded(last.msg))
      => /\ out = <<>>
         /\ ~last.raised

\* new_proof_of_space has just returned the block path's RequestSignatures:
\* the one with the two messages of a signage point.
ReturnedBlockRequest(sent) ==
    /\ Len(sent) = 1
    /\ sent[1].type = "request_signatures"
    /\ Len(sent[1].messages) = 2

\* C12: the pool-partial path never writes the main index.  A proof that is
\* dropped or misses the block threshold leaves proofs_of_space and
\* quality_str_to_identifiers unchanged, whether or not a pool flow starts;
\* the resumed pool flow leaves them unchanged as well; and intake records a
\* proof in both iff it returns the block RequestSignatures.
C12_Step ==
    /\ last'.op = "new_proof_of_space" =>
          LET m == last'.msg
              k == m.sp_hash
              q == verify_and_get_quality_string(m.proof, m.challenge_hash, k)
              recorded == IF k \in DOMAIN proofs_of_space THEN proofs_of_space[k] ELSE <<>>
              eligible == ~DroppedAtIntake(m) /\ EligibleUnder(m, sps[k][1])
          IN  /\ ReturnedBlockRequest(out') <=> eligible
              /\ IF ReturnedBlockRequest(out')
                   THEN /\ proofs_of_space' =
                              Put(proofs_of_space, k,
                                  recorded \o << <<m.plot_identifier, m.proof>> >>)
                        /\ quality_str_to_identifiers' =
                              Put(quality_str_to_identifiers, q,
                                  <<m.plot_identifier, m.challenge_hash, k, last'.peer>>)
                        /\ flows' = flows
                   ELSE /\ proofs_of_space' = proofs_of_space
                        /\ quality_str_to_identifiers' = quality_str_to_identifiers
    /\ last'.op \in {"pool_signatures_response", "pool_submit_response"} =>
          /\ proofs_of_space' = proofs_of_space
          /\ quality_str_to_identifiers' = quality_str_to_identifiers

C12_PoolPathLeavesIndex == [][C12_Step]_vars

\* A pool flow was started for a proof while the proof lists hold the
\* proofs of another key, and none for the key of this proof.
C12_Witness ==
    /\ last.op = "new_proof_of_space"
    /\ Len(out) = 1
    /\ Len(out[1].messages) = 1
    /\ flows # <<>>
    /\ proofs_of_space # EmptyDict
    /\ last.msg.sp_hash \notin DOMAIN proofs_of_space

\* C13: request_signed_values for a recorded quality string sends exactly
\* one RequestSignatures, to the peer recorded for that quality string and to
\* nobody else, with the recorded plot_identifier, challenge_hash and sp_hash
\* and the messages [foliage_block_data_hash, foliage_transaction_block_hash].
\* The recorded tuple is that of the latest intake of the quality string:
\* every intake that returns the block RequestSignatures overwrites the entry
\* and no other step writes the quality index.
C13_Step ==
    /\ (/\ last'.op = "request_signed_values"
        /\ last'.msg.quality_string \in DOMAIN quality_str_to_identifiers) =>
          LET ids == quality_str_to_identifiers[last'.msg.quality_string]
          IN  /\ ~last'.raised
              /\ out' = <<[type |-> "request_signatures", to |-> ids[4],
                           plot_identifier |-> ids[1], challenge_hash |-> ids[2],
                           sp_hash |-> ids[3],
                           messages |-> <<last'.msg.foliage_block_data_hash,
                                          last'.msg.foliage_transaction_block_hash>>]>>
    /\ (last'.op = "new_proof_of_space" /\ ReturnedBlockRequest(out')) =>
          LET m == last'.msg
              q == verify_and_get_quality_string(m.proof, m.challenge_hash, m.sp_hash)
          IN  /\ q \in DOMAIN quality_str_to_identifiers'
              /\ quality_str_to_identifiers'[q]
                    = <<m.plot_identifier, m.challenge_hash, m.sp_hash, last'.peer>>
    /\ quality_str_to_identifiers' # quality_str_to_identifiers =>
          last'.op = "new_proof_of_space" /\ ReturnedBlockRequest(out')

C13_SignedValuesRequest == [][C13_Step]_vars

\* The requested quality string was recorded twice for the key k1, for two
\* plots, the second time by the harvester h2: the request went to h2 for the
\* second plot.
C13_Witness ==
    /\ last.op = "request_signed_values"
    /\ "k1" \in DOMAIN proofs_of_space
    /\ Len(proofs_of_space["k1"]) = 2
    /\ proofs_of_space["k1"][1][2].quality = last.msg.quality_string
    /\ proofs_of_space["k1"][2][2].quality = last.msg.quality_string
    /\ proofs_of_space["k1"][1][1] # proofs_of_space["k1"][2][1]
    /\ Len(out) = 1
    /\ out[1].to = "h2"
    /\ out[1].plot_identifier = proofs_of_space["k1"][2][1]

\* The pool fields of a proof: exactly a pool public key whose private key
\* is registered, or exactly a pool-contract puzzle hash.
HasPoolKey(pospace) == pospace.pool_public_key # None

HasContractHash(pospace) == pospace.pool_contract_puzzle_hash # None

\* C14: every DeclareProofOfSpace that is broadcast is for the recorded
\* proof, which has exactly one of the two pool fields; it carries the pool
\* target and the pool key's signature over it iff the proof has a pool
\* public key, and neither iff it has a pool-contract puzzle hash.  For a
\* proof whose pool public key has no registered private key, or with both
\* or neither of the fields, no DeclareProofOfSpace is broadcast.
C14_PoolAttribution ==
    last.op = "respond_signatures" =>
        /\ \A i \in 1..Len(out) :
              out[i].type = "declare_proof_of_space" =>
                 LET p == out[i].proof_of_space
                 IN  /\ p = RecordedProof(last.msg)
                     /\ HasPoolKey(p) # HasContractHash(p)
                     /\ HasPoolKey(p) => p.pool_public_key \in DOMAIN pool_sks_map
                     /\ HasPoolKey(p) <=>
                           /\ out[i].pool_target = <<PoolTarget(pool_target_puzzle_hash, 0)>>
                           /\ out[i].pool_signature # <<>>
                     /\ HasContractHash(p) <=>
                           /\ out[i].pool_target = <<>>
                           /\ out[i].pool_signature = <<>>
                     /\ out[i].pool_signature # <<>> =>
                           /\ out[i].pool_signature[1] # {}
                           /\ \A sh \in out[i].pool_signature[1] :
                                 /\ get_g1(sh.sk) = p.pool_public_key
                                 /\ sh.m = out[i].pool_target[1]
        /\ (/\ last.msg.sp_hash \in DOMAIN sps
            /\ ProofRecorded(last.msg)
            /\ LET p == RecordedProof(last.msg)
               IN  \/ HasPoolKey(p) /\ p.pool_public_key \notin DOMAIN pool_sks_map
                   \/ HasPoolKey(p) = HasContractHash(p))
           => \A i \in 1..Len(out) : out[i].type # "declare_proof_of_space"

\* Good signatures over a signage point arrived for a recorded proof whose
\* pool public key has no registered private key: nothing was broadcast.
C14_Witness ==
    /\ last.op = "respond_signatures"
    /\ ReachesBranch(last.msg)
    /\ last.at = "sp"
    /\ ~last.raised
    /\ HasPoolKey(RecordedProof(last.msg))
    /\ RecordedProof(last.msg).pool_public_key \notin DOMAIN pool_sks_map
    /\ KeysAndSignaturesGood(last.msg)
    /\ out = <<>>

\* The farmer holds a private key whose public key is pk.
HoldsFarmerKey(pk) ==
    \E i \in 1..Len(get_private_keys) : get_g1(get_private_keys[i]) = pk

\* The harvester's answer leaves the pool flow without key material: it is
\* no RespondSignatures, or names a farmer key the farmer does not hold, or
\* the proof's pool public key has no authentication key.
MissingKeyMaterial(flow, r) ==
    \/ r.type # "respond_signatures"
    \/ r.type = "respond_signatures" /\ ~HoldsFarmerKey(r.farmer_pk)
    \/ flow.msg.proof.pool_public_key \notin DOMAIN pool_sks_map

\* C15: when a pool flow resumes with an answer of the harvester that is not
\* a RespondSignatures, or that names a farmer public key no local private
\* key matches, or when the pool authentication key for the proof's pool
\* public key is absent, no SubmitPartial is sent, pool_difficulty and the
\* submit timestamp are unchanged, and the flow is over.
C15_Step ==
    (/\ last'.op = "pool_signatures_response"
     /\ MissingKeyMaterial(last'.flow, last'.msg))
       => /\ out' = <<>>
          /\ pool_difficulty' = pool_difficulty
          /\ last_pool_partial_submit_timestamp' = last_pool_partial_submit_timestamp
          /\ Len(flows') = Len(flows) - 1
          /\ \A i \in 1..Len(flows') : \E j \in 1..Len(flows) : flows'[i] = flows[j]

C15_NoSubmissionWithoutKeys == [][C15_Step]_vars

\* A genuine signature arrived for a flow whose pool public key has no
\* authentication key: the flow ended without a submission.
C15_Witness ==
    /\ last.op = "pool_signatures_response"
    /\ last.msg.type = "respond_signatures"
    /\ HoldsFarmerKey(last.msg.farmer_pk)
    /\ GenuineShare(last.msg, 1, last.flow.msg.proof.plot_public_key)
    /\ last.flow.msg.proof.pool_public_key \notin DOMAIN pool_sks_map
    /\ out = <<>>

\* The submission failed: the call raised, or the pool answered with an
\* error code other than 5.
SubmissionFailed(answer) ==
    \/ answer.failed
    \/ answer.has_error_code /\ answer.error_code # 5

\* C16: a pool flow calls submit_partial at most once: a SubmitPartial is
\* sent only by a flow resuming from its wait for the harvester, which then
\* waits for the pool, and the pool's answer always ends the flow without
\* another message.  When the call failed or the answer carries an error
\* code other than 5, the flow ends without raising, with pool_difficulty,
\* the registry, the counters, the proof lists, the quality index and the
\* timestamps unchanged.
C16_Step ==
    /\ (\E i \in 1..Len(out') : out'[i].type = "submit_partial") =>
          /\ last'.op = "pool_signatures_response"
          /\ last'.flow.pc = "await_signatures"
          /\ Len(out') = 1
          /\ Len(flows') = Len(flows)
          /\ Cardinality({i \in 1..Len(flows') : flows'[i].pc = "await_pool"})
               = Cardinality({i \in 1..Len(flows) : flows[i].pc = "await_pool"}) + 1
    /\ last'.op = "pool_submit_response" =>
          /\ last'.flow.pc = "await_pool"
          /\ out' = <<>>
          /\ Len(flows') = Len(flows) - 1
          /\ Cardinality({i \in 1..Len(flows') : flows'[i].pc = "await_pool"})
               = Cardinality({i \in 1..Len(flows) : flows[i].pc = "await_pool"}) - 1
          /\ SubmissionFailed(last'.msg) =>
                /\ ~last'.raised
                /\ farmerState' = farmerState

\* After a failed submission the node still takes the next message.
C16_StillServing ==
    (last.op = "pool_submit_response" /\ SubmissionFailed(last.msg)) =>
        /\ ENABLED new_signage_point(SpC)
        /\ ENABLED respond_signatures(RespondSignatures("k1", "p1", "L1", "F1", "k1", "r1",
                                                        "l1", "l1"))

C16_SubmissionFailure == []C16_StillServing /\ [][C16_Step]_vars

\* The pool answered with error code 1 and a difficulty other than the
\* node's: the flow is over and the difficulty is the one it was.
C16_Witness ==
    /\ last.op = "pool_submit_response"
    /\ last.msg.has_error_code
    /\ last.msg.error_code = 1
    /\ last.msg.current_difficulty # pool_difficulty
    /\ last.flow.payload.difficulty = pool_difficulty
    /\ flows = <<>>

\* C17: every NewSignagePoint handled, new or duplicate, sends exactly one
\* NewSignagePointHarvester to all harvesters, with the signage point's
\* challenge_hash, signage_point_index and challenge_chain_sp; its difficulty
\* and sub_slot_iters are pool_difficulty and pool_sub_slot_iters iff pooling
\* is enabled and the signage point's own otherwise; and the registry holds
\* the signage point as it was received.
C17_Step ==
    last'.op = "new_signage_point" =>
        LET nsp == last'.msg
            k == nsp.challenge_chain_sp
        IN  /\ Len(out') = 1
            /\ out'[1].type = "new_signage_point_harvester"
            /\ out'[1].to = "all_harvesters"
            /\ out'[1].challenge_hash = nsp.challenge_hash
            /\ out'[1].signage_point_index = nsp.signage_point_index
            /\ out'[1].sp_hash = k
            /\ out'[1].difficulty = (IF pooling THEN pool_difficulty ELSE nsp.difficulty)
            /\ out'[1].sub_slot_iters
                 = (IF pooling THEN pool_sub_slot_iters ELSE nsp.sub_slot_iters)
            /\ k \in DOMAIN sps'
            /\ Cardinality({i \in 1..Len(sps'[k]) : sps'[k][i] = nsp}) = 1
            /\ \A x \in DOMAIN sps : \A i \in 1..Len(sps[x]) : sps'[x][i] = sps[x][i]

C17_HarvesterBroadcast == [][C17_Step]_vars

\* With pooling enabled and the pool difficulty at 400, a signage point of
\* difficulty 10 and 960 sub-slot iterations was announced with 400 and
\* 1000 and is stored with its own values.
C17_Witness ==
    /\ last.op = "new_signage_point"
    /\ pooling
    /\ pool_difficulty = 400
    /\ last.msg.sub_slot_iters # pool_sub_slot_iters
    /\ out[1].difficulty = 400
    /\ out[1].sub_slot_iters = pool_sub_slot_iters
    /\ sps[last.msg.challenge_chain_sp][1] = last.msg
    /\ sps[last.msg.challenge_chain_sp][1].difficulty = 10

\* Every suspended pool flow holds a payload whose difficulty is one its
\* proof is pool-eligible under, and the hash of that payload as the message
\* to sign.
C18_FlowsConsistent ==
    \A i \in 1..Len(flows) :
       /\ flows[i].payload.proof_of_space = flows[i].msg.proof
       /\ PoolItersUnder(flows[i].msg, flows[i].payload.difficulty) < iters_limit
       /\ flows[i].m_to_sign = get_hash(flows[i].payload)

\* C18: under every interleaving of pool flows and handlers, the difficulty
\* of a flow's payload is the pool_difficulty its proof's pool eligibility
\* was evaluated against, when the flow started; while the flow is suspended
\* no step changes its payload or the hash it asked the harvester to sign,
\* whatever happens to pool_difficulty; and the SubmitPartial carries that
\* payload, signed over that hash.
C18_Step ==
    /\ (last'.op = "new_proof_of_space" /\ Len(flows') = Len(flows) + 1) =>
          LET f == flows'[Len(flows')]
          IN  /\ f.msg = last'.msg
              /\ f.payload.difficulty = pool_difficulty
              /\ PoolItersUnder(f.msg, pool_difficulty) < iters_limit
              /\ out'[1].messages = <<get_hash(f.payload)>>
              /\ \A i \in 1..Len(flows) : flows'[i] = flows[i]
    /\ ~(last'.op = "new_proof_of_space" /\ Len(flows') = Len(flows) + 1) =>
          \A i \in 1..Len(flows') :
             \E j \in 1..Len(flows) :
                /\ flows'[i].msg = flows[j].msg
                /\ flows'[i].payload = flows[j].payload
                /\ flows'[i].m_to_sign = flows[j].m_to_sign
    /\ \A i \in 1..Len(out') :
          out'[i].type = "submit_partial" =>
             /\ out'[i].payload = last'.flow.payload
             /\ \A sh \in out'[i].signature : sh.m = get_hash(last'.flow.payload)

C18_PayloadDifficulty == []C18_FlowsConsistent /\ [][C18_Step]_vars

\* A partial was submitted with the difficulty its flow started under, after
\* another flow's answer from the pool had changed pool_difficulty.
C18_Witness ==
    /\ last.op = "pool_signatures_response"
    /\ Len(out) = 1
    /\ out[1].type = "submit_partial"
    /\ out[1].payload.difficulty # pool_difficulty
    /\ PoolItersUnder(last.flow.msg, pool_difficulty) >= iters_limit

\* The counter of a key, 0 when the key has none.
CountOf(counters, k) == IF k \in DOMAIN counters THEN counters[k] ELSE 0

\* Every response counter is between 0 and max_pos_per_sp + 1, and no key
\* has more recorded proofs than counted responses.
C19_Range ==
    /\ \A k \in DOMAIN number_of_responses :
          /\ number_of_responses[k] >= 0
          /\ number_of_responses[k] <= max_pos_per_sp + 1
    /\ \A k \in DOMAIN proofs_of_space :
          Len(proofs_of_space[k]) <= CountOf(number_of_responses, k)

\* C19: the response counter of every key stays within 0..6; a proof that
\* verifies while its key is registered and not capped adds exactly 1 to the
\* counter of its key, however many signage points share the key and whether
\* the proof goes the block way, the pool way or neither; nothing else
\* changes a counter's value, so no counter decreases; and the proofs
\* recorded for a key are never more than its counter.
C19_Step ==
    /\ \A k \in DOMAIN number_of_responses :
          k \in DOMAIN number_of_responses' /\ number_of_responses'[k] >= number_of_responses[k]
    /\ \A k \in SpHashes :
          CountOf(number_of_responses', k) =
             CountOf(number_of_responses, k)
               + (IF /\ last'.op = "new_proof_of_space"
                     /\ last'.msg.sp_hash = k
                     /\ ~DroppedAtIntake(last'.msg)
                    THEN 1 ELSE 0)

C19_Counter == []C19_Range /\ [][C19_Step]_vars

\* The counter of k1 stands at 6 with two signage points under the key and
\* fewer than six proofs recorded: the next proof for k1 is dropped.
C19_Witness ==
    /\ "k1" \in DOMAIN number_of_responses
    /\ number_of_responses["k1"] = max_pos_per_sp + 1
    /\ Len(sps["k1"]) = 2
    /\ CountOf([k \in DOMAIN proofs_of_space |-> Len(proofs_of_space[k])], "k1") \in 1..5
    /\ last.op = "new_proof_of_space"
    /\ out = <<>>

\* C20: the signage_point_index and the reward_chain_sp of every
\* DeclareProofOfSpace that is broadcast are those of one signage point
\* registered under the response's key: the one whose reward_chain_sp is the
\* response's second message.
C20_SameSignagePoint ==
    last.op = "respond_signatures" =>
        \A i \in 1..Len(out) :
           out[i].type = "declare_proof_of_space" =>
              /\ out[i].reward_chain_sp = last.msg.message_signatures[2][1]
              /\ \E j \in 1..Len(sps[last.msg.sp_hash]) :
                    /\ sps[last.msg.sp_hash][j].reward_chain_sp = out[i].reward_chain_sp
                    /\ sps[last.msg.sp_hash][j].signage_point_index
                         = out[i].signage_point_index

\* The quality-index entry ids = (plot_identifier, challenge_hash, sp_hash,
\* peer) names a registered key whose proof list has a record for the plot.
EntryResolvable(ids) ==
    /\ ids[3] \in DOMAIN sps
    /\ sps[ids[3]] # <<>>
    /\ ids[3] \in DOMAIN proofs_of_space
    /\ \E i \in 1..Len(proofs_of_space[ids[3]]) : proofs_of_space[ids[3]][i][1] = ids[1]

\* Every entry of the quality index is resolvable; the RequestSignatures that
\* request_signed_values has just sent names a registered key and a plot
\* with a recorded proof; and a RespondSignatures for the key and plot of an
\* entry gets past the lookup of the recorded proof.
C21_Consistent ==
    /\ \A q \in DOMAIN quality_str_to_identifiers :
          EntryResolvable(quality_str_to_identifiers[q])
    /\ (last.op = "request_signed_values" /\ out # <<>>) =>
          EntryResolvable(<<out[1].plot_identifier, out[1].challenge_hash, out[1].sp_hash,
                            out[1].to>>)
    /\ (/\ last.op = "respond_signatures"
        /\ \E q \in DOMAIN quality_str_to_identifiers :
              /\ quality_str_to_identifiers[q][1] = last.msg.plot_identifier
              /\ quality_str_to_identifiers[q][3] = last.msg.sp_hash)
          => last.at \notin {"unknown_sp", "find_proof"}

\* C21: with no expiry, in every reachable state each quality-index entry
\* refers to a registered signage-point key whose proof list holds a record
\* for the entry's plot, so every RequestSignatures re-issued by
\* request_signed_values names a plot and a signage point for which
\* respond_signatures finds the recorded proof.
C21_IndexConsistency == []C21_Consistent

\* A RequestSignatures was re-issued for a quality string while the proof
\* list of its key holds the records of two plots.
C21_Witness ==
    /\ last.op = "request_signed_values"
    /\ Len(out) = 1
    /\ Len(proofs_of_space[out[1].sp_hash]) = 2
    /\ proofs_of_space[out[1].sp_hash][1][1] # proofs_of_space[out[1].sp_hash][2][1]
    /\ proofs_of_space[out[1].sp_hash][1][1] = out[1].plot_identifier
====
